---- MODULE Spec2Model ----
(***************************************************************************)
(* A model of src/main.c: an arena bump allocator whose used/mark bitmaps  *)
(* are overlaid with the arena header, per-arena segmented gray stacks     *)
(* with a shared pool of spare segments, the write barrier, the            *)
(* incremental mark step and the sweep pass.                               *)
(*                                                                         *)
(* Data model: LP64, little endian (int is 32 bits, pointers and size_t    *)
(* are 64 bits, bit-fields are allocated from the low bit of their byte).  *)
(* The arena is a flat array of 32-bit words addressed relative to the     *)
(* arena base; used[i] is word i, mark[i] is word NWORDS + i (for every i, *)
(* inside the array or not), and the header byte of the object at byte     *)
(* offset b is the low byte of word b \div 4.                              *)
(***************************************************************************)
EXTENDS Integers, Sequences, FiniteSets, TLC

\* ------------------------------------------------------------ constants
ARENA_SIZE == 64 * 1024
ALLOC_UNIT == 16
\* Capacity of one gray-stack segment.  The source has 510; the model runs
\* with a small capacity so that segment boundaries are crossed.
GS_SIZE == 2

SIZEOF_INT == 4
SIZEOF_OBJ == 1

\* number of ints in used[] and in mark[]
NWORDS == ((ARENA_SIZE \div ALLOC_UNIT) \div SIZEOF_INT) \div 8
\* sizeof(struct arena): the two bitmaps, each in a union with a header struct
SIZEOF_ARENA == 2 * NWORDS * SIZEOF_INT
\* capacity of the arena in cells (ARENA_SIZE >> 4)
NCELLS == ARENA_SIZE \div 16
\* an address posix_memalign may return: a multiple of ARENA_SIZE
ArenaBase == 3 * ARENA_SIZE
NULL == 0

\* ------------------------------------------------------------ bounds
\* number of objects carved from the arena
MaxObjs == 2
\* number of entries on the gray stack
MaxGray == 3
\* number of segments obtained from malloc
MaxSegs == 2

\* ------------------------------------------------------------ C integers
\* An int is its four bytes, low byte first; a size_t is its four 16-bit
\* limbs, low limb first.
ToInt(w) ==
    w[1] + 256 * w[2] + 65536 * w[3]
    + 16777216 * (IF w[4] >= 128 THEN w[4] - 256 ELSE w[4])

FromInt(i) ==
    <<i % 256, (i \div 256) % 256, (i \div 65536) % 256, (i \div 16777216) % 256>>

SizeT(n) == <<n % 65536, n \div 65536, 0, 0>>

RECURSIVE BitAnd(_, _)
BitAnd(x, y) ==
    IF x = 0 \/ y = 0 THEN 0
    ELSE 2 * BitAnd(x \div 2, y \div 2) + (IF x % 2 = 1 /\ y % 2 = 1 THEN 1 ELSE 0)

RECURSIVE BitOr(_, _)
BitOr(x, y) ==
    IF x = 0 THEN y ELSE IF y = 0 THEN x
    ELSE 2 * BitOr(x \div 2, y \div 2) + (IF x % 2 = 1 \/ y % 2 = 1 THEN 1 ELSE 0)

RECURSIVE BitXor(_, _)
BitXor(x, y) ==
    IF x = 0 THEN y ELSE IF y = 0 THEN x
    ELSE 2 * BitXor(x \div 2, y \div 2) + (IF x % 2 # y % 2 THEN 1 ELSE 0)

\* the operators of C on ints, byte by byte
WAnd(x, y) == [k \in 1..4 |-> BitAnd(x[k], y[k])]
WOr(x, y) == [k \in 1..4 |-> BitOr(x[k], y[k])]
WXor(x, y) == [k \in 1..4 |-> BitXor(x[k], y[k])]
WZero == <<0, 0, 0, 0>>

VARIABLES
    mem,       \* the arena's bytes that differ from their initial content
    fill,      \* the content of the arena's storage bytes before any write
    segs,      \* the gray-stack segments malloc has returned
    spare_gs,  \* head of the pool of spare segments
    objs,      \* the addresses arena_alloc has carved, in order
    gray,      \* the entries pushed and not yet popped, oldest first
    roots,     \* the objects pushed as roots in the cycle of SpecCycle
    pc,        \* "run", or "dead" after die(), or "fault" after a wild store
    last       \* the last operation, its arguments and its result

vars == <<mem, fill, segs, spare_gs, objs, gray, roots, pc, last>>

\* ------------------------------------------------------------ arena memory
\* arena_new() zeroes sizeof(struct arena) bytes; the rest of the block is
\* whatever posix_memalign returned.
InitByte(b) == IF b < SIZEOF_ARENA THEN 0 ELSE fill

RdB(m, b) == IF b \in DOMAIN m THEN m[b] ELSE InitByte(b)

WrB(m, b, v) ==
    IF v = RdB(m, b) THEN m
    ELSE IF v = InitByte(b)
    THEN [x \in DOMAIN m \ {b} |-> m[x]]
    ELSE [x \in DOMAIN m \cup {b} |-> IF x = b THEN v ELSE m[x]]

\* the int at int index w of the arena
Rd(m, w) == [k \in 1..4 |-> RdB(m, 4 * w + k - 1)]
Wr(m, w, v) ==
    WrB(WrB(WrB(WrB(m, 4 * w, v[1]), 4 * w + 1, v[2]), 4 * w + 2, v[3]),
        4 * w + 3, v[4])

\* struct arena_meta_a { int nextcell; struct gs * gs; } lies over used[]:
\* nextcell is used[0], gs is used[2] (low half) and used[3] (high half).
\* A pointer to a segment is the segment's index in segs; any other
\* non-null pattern is a wild pointer.
nextcell(m) == ToInt(Rd(m, 0))
WILD == 0 - 1
GsHead(m) ==
    IF Rd(m, 3) = WZero /\ ToInt(Rd(m, 2)) >= 0 THEN ToInt(Rd(m, 2)) ELSE WILD
SetGs(m, p) == Wr(Wr(m, 2, FromInt(p)), 3, WZero)

\* struct obj { unsigned char gray:1; unsigned char type:7; } at address o
ObjByte(o) == o - ArenaBase
Gray(m, o) == RdB(m, ObjByte(o)) % 2
SetGray(m, o, g) ==
    LET v == RdB(m, ObjByte(o)) IN WrB(m, ObjByte(o), v - (v % 2) + g)
Type(m, o) == RdB(m, ObjByte(o)) \div 2

InArena(o) == o >= ArenaBase /\ o < ArenaBase + ARENA_SIZE

\* a = arena_new(): memset(a, 0, sizeof(*a)), then nextcell
arena_new == Wr(<<>>, 0, FromInt((SIZEOF_ARENA + ALLOC_UNIT - 1) \div 16))

\* ------------------------------------------------------------ arena_alloc
\* objsize + ALLOC_UNIT - 1 in size_t: the carry runs through the limbs and
\* out of the top one
AddSmall(sz, k) ==
    LET t1 == sz[1] + k
        t2 == sz[2] + (t1 \div 65536)
        t3 == sz[3] + (t2 \div 65536)
        t4 == sz[4] + (t3 \div 65536)
    IN <<t1 % 65536, t2 % 65536, t3 % 65536, t4 % 65536>>

\* x >> 4 in size_t
Shr4(x) ==
    [k \in 1..4 |-> (x[k] \div 16) + (IF k < 4 THEN (x[k + 1] % 16) * 4096 ELSE 0)]

\* the conversion of a size_t to int keeps the low 32 bits
SizeToInt(x) ==
    x[1] + 65536 * (IF x[2] >= 32768 THEN x[2] - 65536 ELSE x[2])

\* int numunits = (objsize + ALLOC_UNIT - 1) >> 4
numunits(objsize) == SizeToInt(Shr4(AddSmall(objsize, ALLOC_UNIT - 1)))

\* objsize < sizeof(struct obj)
TooSmall(objsize) ==
    objsize[2] = 0 /\ objsize[3] = 0 /\ objsize[4] = 0 /\ objsize[1] < SIZEOF_OBJ

\* arena_alloc without the test of line 76
arena_alloc_nocheck(m, objsize) ==
    LET n == numunits(objsize) IN
    IF nextcell(m) + n > NCELLS
    THEN [mem |-> m, ret |-> NULL, o |-> NULL, path |-> "noroom"]
    ELSE LET o == ArenaBase + nextcell(m) * 16
             m1 == SetGray(m, o, 0)
             m2 == Wr(m1, 0, FromInt(nextcell(m1) + n))
         IN [mem |-> m2, ret |-> NULL, o |-> o, path |-> "ok"]

\* The result: the memory after the call, the value returned, the object
\* carved (the local o; NULL when none is carved) and the path taken.
arena_alloc(m, objsize) ==
    IF TooSmall(objsize)
    THEN [mem |-> m, ret |-> NULL, o |-> NULL, path |-> "small"]
    ELSE LET n == numunits(objsize) IN
         IF nextcell(m) + n > NCELLS
         THEN [mem |-> m, ret |-> NULL, o |-> NULL, path |-> "noroom"]
         ELSE LET o == ArenaBase + nextcell(m) * 16
                  m1 == SetGray(m, o, 0)
                  m2 == Wr(m1, 0, FromInt(nextcell(m1) + n))
              IN [mem |-> m2, ret |-> NULL, o |-> o, path |-> "ok"]

\* low 16 bits masked off
get_arena(o) == o - (o % ARENA_SIZE)

\* ------------------------------------------------------------ gray stacks
\* The collector's state that the gray-stack operations read and write.
St == [mem |-> mem, segs |-> segs, spare_gs |-> spare_gs]

Drop(f, k) == [x \in DOMAIN f \ {k} |-> f[x]]
Put(f, k, v) == [x \in DOMAIN f \cup {k} |-> IF x = k THEN v ELSE f[x]]

\* A segment is named by its index in segs; malloc returns the next index.
\* The n and prev of a fresh segment are written by gs_push before any read.
\* data holds the slots data[GS_SIZE - n] .. data[GS_SIZE - 1] in use; a slot
\* below them keeps its bytes in the code, and gs_push writes it before gs_pop
\* reads it, so the model forgets it when gs_pop lowers n.
gs_get(s) ==
    IF s.spare_gs = NULL
    THEN [s |-> [s EXCEPT !.segs = Append(@, [n |-> 0, prev |-> NULL, data |-> <<>>])],
          gs |-> Len(s.segs) + 1]
    ELSE [s |-> [s EXCEPT !.spare_gs = s.segs[s.spare_gs].prev],
          gs |-> s.spare_gs]

gs_put(s, gs) ==
    LET s1 == [s EXCEPT !.segs[gs].prev = s.spare_gs]
    IN [s1 EXCEPT !.spare_gs = s1.segs[gs].prev]

\* gs_push that does not link the old head behind a new segment
gs_push_nolink(s, o) ==
    LET head == GsHead(s.mem)
        s1 == IF head = NULL \/ s.segs[head].n = GS_SIZE
              THEN LET g == gs_get(s)
                   IN [g.s EXCEPT !.mem = SetGs(@, g.gs),
                                  !.segs[g.gs].n = 0,
                                  !.segs[g.gs].prev = NULL]
              ELSE s
        gs == GsHead(s1.mem)
        n1 == s1.segs[gs].n + 1
    IN [s1 EXCEPT !.segs[gs].n = n1,
                  !.segs[gs].data = Put(@, GS_SIZE - n1, o)]

\* gs_push that takes a new segment one entry before the head is full
gs_push_early(s, o) ==
    LET head == GsHead(s.mem)
        s1 == IF head = NULL \/ s.segs[head].n >= GS_SIZE - 1
              THEN LET g == gs_get(s)
                   IN [g.s EXCEPT !.mem = SetGs(@, g.gs),
                                  !.segs[g.gs].n = 0,
                                  !.segs[g.gs].prev = head]
              ELSE s
        gs == GsHead(s1.mem)
        n1 == s1.segs[gs].n + 1
    IN [s1 EXCEPT !.segs[gs].n = n1,
                  !.segs[gs].data = Put(@, GS_SIZE - n1, o)]

gs_push(s, o) ==
    LET head == GsHead(s.mem)
        s1 == IF head = NULL \/ s.segs[head].n = GS_SIZE
              THEN LET g == gs_get(s)
                   IN [g.s EXCEPT !.mem = SetGs(@, g.gs),
                                  !.segs[g.gs].n = 0,
                                  !.segs[g.gs].prev = head]
              ELSE s
        gs == GsHead(s1.mem)
        n1 == s1.segs[gs].n + 1
    IN [s1 EXCEPT !.segs[gs].n = n1,
                  !.segs[gs].data = Put(@, GS_SIZE - n1, o)]

\* gs_pop that reads the top entry and leaves n as it was
gs_pop_peek(s) ==
    LET gs == GsHead(s.mem) IN
    IF gs = NULL THEN [s |-> s, o |-> NULL]
    ELSE [s |-> s, o |-> s.segs[gs].data[GS_SIZE - s.segs[gs].n]]

gs_pop(s) ==
    LET gs == GsHead(s.mem) IN
    IF gs = NULL THEN [s |-> s, o |-> NULL]
    ELSE LET n == s.segs[gs].n
             o == s.segs[gs].data[GS_SIZE - n]
             s1 == [s EXCEPT !.segs[gs].n = n - 1,
                             !.segs[gs].data = Drop(@, GS_SIZE - n)]
         IN IF n - 1 = 0
            THEN [s |-> gs_put([s1 EXCEPT !.mem = SetGs(@, s1.segs[gs].prev)], gs),
                  o |-> o]
            ELSE [s |-> s1, o |-> o]

\* ------------------------------------------------------------ marking
\* c is the byte offset of the object in its arena
IS_MARKED(m, c) == WAnd(Rd(m, NWORDS + (c \div 32)), FromInt(c % 32)) # WZero
MARK(m, c) ==
    Wr(m, NWORDS + (c \div 32), WOr(Rd(m, NWORDS + (c \div 32)), FromInt(c % 32)))

\* write_barrier without the test of line 164
write_barrier_nocheck(s, o) ==
    LET s1 == [s EXCEPT !.mem = SetGray(@, o, 1)]
        cell == o - get_arena(o)
    IN IF IS_MARKED(s1.mem, cell) THEN gs_push(s1, o) ELSE s1

\* write_barrier that sets the gray flag and never pushes
write_barrier_nopush(s, o) ==
    IF Gray(s.mem, o) = 1 THEN s
    ELSE [s EXCEPT !.mem = SetGray(@, o, 1)]

write_barrier(s, o) ==
    IF Gray(s.mem, o) = 1 THEN s
    ELSE LET s1 == [s EXCEPT !.mem = SetGray(@, o, 1)]
             cell == o - get_arena(o)
         IN IF IS_MARKED(s1.mem, cell) THEN gs_push(s1, o) ELSE s1

\* the scan of the popped object's pointers is not implemented
mark(s) ==
    LET r == gs_pop(s) IN
    IF r.o = NULL THEN [s |-> r.s, o |-> NULL, ret |-> 0]
    ELSE LET cell == r.o - ArenaBase
         IN [s |-> [r.s EXCEPT !.mem = SetGray(MARK(@, cell), r.o, 0)],
             o |-> r.o, ret |-> 1]

\* ------------------------------------------------------------ sweep
\* the test of line 194 reading prev where it reads n
sweep_dies_prev(s) == GsHead(s.mem) # NULL /\ s.segs[GsHead(s.mem)].prev # NULL

\* if (a->a.gs && a->a.gs->n)
sweep_dies(s) == GsHead(s.mem) # NULL /\ s.segs[GsHead(s.mem)].n # 0

\* The loop runs i from sizeof(*a) >> 9 up to the number of ints in used[]:
\*     a->mark[i] = used & mark;  a->used[i] = used ^ mark;
\* Iteration i reads and writes used[i] and mark[i] only, so the memory after
\* the loop is given int by int, from the memory before it.
sweep_first == SIZEOF_ARENA \div 512
sweep_used(m, i) == WXor(Rd(m, i), Rd(m, NWORDS + i))
sweep_mark(m, i) == WAnd(Rd(m, i), Rd(m, NWORDS + i))

\* the int at index w after the loop
sweep_int(m, w) ==
    IF w >= sweep_first /\ w < NWORDS THEN sweep_used(m, w)
    ELSE IF w >= NWORDS + sweep_first /\ w < 2 * NWORDS THEN sweep_mark(m, w - NWORDS)
    ELSE Rd(m, w)

sweep(m) ==
    LET touched == {b \div 4 : b \in DOMAIN m}
        ints == touched \cup {w - NWORDS : w \in {x \in touched : x >= NWORDS /\ x < 2 * NWORDS}}
        bytes == {4 * w + k : w \in ints, k \in 0..3}
        after(b) == sweep_int(m, b \div 4)[(b % 4) + 1]
    IN [b \in {x \in bytes : after(x) # InitByte(x)} |-> after(b)]

\* ------------------------------------------------------------ the machine
\* request sizes (bytes) of the single collection cycle of SpecCycle
Sizes == {SizeT(8), SizeT(20), SizeT(40)}
\* request sizes of the interleaved mutator of Spec: one cell and two cells,
\* so that objects start at even and at odd cells
MutatorSizes == {SizeT(8), SizeT(20)}
\* request sizes of the allocator alone: the sizes above, sizes that fill
\* the arena, and sizes near the top of size_t
AllocSizes ==
    Sizes \cup {SizeT(0), SizeT(1), SizeT(32), SizeT(3088), SizeT(16 * (NCELLS - 64) - 40),
                SizeT(16 * (NCELLS - 64)), SizeT(ARENA_SIZE),
                <<65520, 65535, 15, 0>>, <<65535, 65535, 65535, 65535>>}

Range(f) == {f[x] : x \in DOMAIN f}

\* the objects of the arena a caller can name
Objects == {o \in Range(objs) : InArena(o)}

\* the number of entries on the arena's segment chain, from segment gs down
RECURSIVE Count(_, _)
Count(sg, gs) == IF gs = NULL THEN 0 ELSE sg[gs].n + Count(sg, sg[gs].prev)

\* the entries on the arena's segment chain, oldest first
RECURSIVE Flat(_, _)
Flat(sg, gs) ==
    IF gs = NULL THEN <<>>
    ELSE Flat(sg, sg[gs].prev)
         \o [k \in 1..sg[gs].n |-> sg[gs].data[GS_SIZE - k]]

Top(q) == IF q = <<>> THEN NULL ELSE q[Len(q)]
Front(q) == IF q = <<>> THEN q ELSE SubSeq(q, 1, Len(q) - 1)

Set(s) == mem' = s.mem /\ segs' = s.segs /\ spare_gs' = s.spare_gs

Did(op, arg, o, ret) ==
    last' = [op |-> op, arg |-> arg, o |-> o, ret |-> ret, nc |-> nextcell(mem)]

\* The state after a = arena_new().  The storage behind the header is not
\* initialised: every byte of it reads as fill.
InitArena ==
    /\ mem = arena_new
    /\ segs = <<>>
    /\ spare_gs = NULL
    /\ objs = <<>>
    /\ gray = <<>>
    /\ roots = {}
    /\ pc = "run"
    /\ last = [op |-> "new", arg |-> 0, o |-> NULL, ret |-> ArenaBase, nc |-> 0]

\* The interleaved mutator and collector of Spec carve no object behind byte
\* 4096 of the arena, so the storage is read in object headers only, where
\* arena_alloc has written the gray flag: it starts with every bit set.
Init == fill = 255 /\ InitArena

InitAny == fill \in {0, 255} /\ InitArena

\* o = arena_alloc(a, sz).  A carved object whose header lies outside the
\* arena's block makes the store to o->gray a wild store: it lands in the
\* memory behind the block or it faults.  A negative nextcell makes the
\* shift of line 86 undefined; the model stops there.
Alloc(sz) ==
    /\ pc = "run"
    /\ nextcell(mem) >= 0
    /\ LET r == arena_alloc(mem, sz) IN
       /\ r.path = "ok" => Len(objs) < MaxObjs
       /\ pc' \in IF r.path = "ok" /\ ~InArena(r.o) THEN {"run", "fault"} ELSE {"run"}
       /\ mem' = IF pc' = "fault" THEN mem ELSE r.mem
       /\ objs' = IF r.path = "ok" /\ pc' = "run" THEN Append(objs, r.o) ELSE objs
       /\ Did("alloc", sz, r.o, r.ret)
    /\ UNCHANGED <<fill, segs, spare_gs, gray>>

\* gs_push(a, o): the runtime pushes a root
Push(o) ==
    /\ pc = "run"
    /\ o \in Objects
    /\ Len(gray) < MaxGray
    /\ LET s == gs_push(St, o) IN
       /\ Len(s.segs) <= MaxSegs
       /\ Set(s)
    /\ gray' = Append(gray, o)
    /\ Did("push", o, NULL, 0)
    /\ UNCHANGED <<fill, objs, pc>>

\* write_barrier(o)
WriteBarrier(o) ==
    /\ pc = "run"
    /\ o \in Objects
    /\ LET s == write_barrier(St, o)
           pushed == Count(s.segs, GsHead(s.mem)) > Count(segs, GsHead(mem))
       IN
       /\ pushed => Len(gray) < MaxGray
       /\ Len(s.segs) <= MaxSegs
       /\ Set(s)
       /\ gray' = IF pushed THEN Append(gray, o) ELSE gray
       /\ Did("write_barrier", o, NULL, IF pushed THEN 1 ELSE 0)
    /\ UNCHANGED <<fill, objs, pc>>

\* mark(a)
MarkStep ==
    /\ pc = "run"
    /\ LET r == mark(St) IN
       /\ Set(r.s)
       /\ Did("mark", Top(gray), r.o, r.ret)
    /\ gray' = Front(gray)
    /\ UNCHANGED <<fill, objs, pc>>

\* sweep(a): die() ends the process before the loop
Sweep ==
    /\ pc = "run"
    /\ IF sweep_dies(St)
       THEN pc' = "dead" /\ mem' = mem
       ELSE pc' = "run" /\ mem' = sweep(mem)
    /\ Did("sweep", Len(gray), NULL, 0)
    /\ UNCHANGED <<fill, segs, spare_gs, objs, gray>>

\* the mutator and the collector, interleaved in any order
Next ==
    \/ \E sz \in MutatorSizes : Alloc(sz) /\ UNCHANGED roots
    \/ \E o \in Objects : Push(o) /\ UNCHANGED roots
    \/ \E o \in Objects : WriteBarrier(o) /\ UNCHANGED roots
    \/ MarkStep /\ UNCHANGED roots
    \/ Sweep /\ UNCHANGED roots

Spec == Init /\ [][Next]_vars

\* The driver's mark loop, while (mark(a)) { }: pc is "drain" between the
\* calls of one run of the loop, and the mutator runs again when mark()
\* has returned 0.
DrainMark ==
    /\ pc \in {"run", "drain"}
    /\ LET r == mark(St) IN
       /\ Set(r.s)
       /\ Did("mark", Top(gray), r.o, r.ret)
       /\ pc' = IF r.ret = 1 THEN "drain" ELSE "run"
    /\ gray' = Front(gray)
    /\ UNCHANGED <<fill, objs, roots>>

NextDrain == Next \/ DrainMark

\* Weak fairness of the loop's call: inside the loop the call is always
\* possible (ENABLED <<DrainMark>>_vars holds wherever pc = "drain"), so a
\* behaviour that stays in the loop forever makes the call again and again.
DrainFair == <>[](pc = "drain") => []<><<DrainMark>>_vars

SpecDrain == Init /\ [][NextDrain]_vars /\ DrainFair

\* the allocator alone, over AllocSizes
NextAlloc == \E sz \in AllocSizes : Alloc(sz) /\ UNCHANGED roots

SpecAlloc == InitAny /\ [][NextAlloc]_vars

\* The mutator and the collector over the whole arena: a request that puts
\* the next object behind byte 4096, and a request of 0xFFFFFFC50 bytes,
\* whose numunits is -59 and puts the next object at cell 5.
WideSizes == {SizeT(8), SizeT(3088), <<64592, 65535, 15, 0>>}

\* a->a.gs is null or a segment malloc has returned
GsValid == GsHead(mem) \in DOMAIN segs \cup {NULL}

\* gs_push, gs_pop and sweep read a->a.gs->n: through a pointer that is
\* neither null nor a segment (a small integer, here) the read faults
WildGs ==
    /\ pc = "run"
    /\ ~GsValid
    /\ pc' = "fault"
    /\ Did("gs", GsHead(mem), NULL, 0)
    /\ UNCHANGED <<mem, fill, segs, spare_gs, objs, gray, roots>>

NextWide ==
    \/ \E sz \in WideSizes : Alloc(sz) /\ UNCHANGED roots
    \/ GsValid /\ \E o \in Objects : Push(o) /\ UNCHANGED roots
    \/ GsValid /\ \E o \in Objects : WriteBarrier(o) /\ UNCHANGED roots
    \/ GsValid /\ MarkStep /\ UNCHANGED roots
    \/ GsValid /\ Sweep /\ UNCHANGED roots
    \/ WildGs

SpecWide == InitAny /\ [][NextWide]_vars

\* One collection cycle on a fresh arena with no write barrier: allocate,
\* push a set of roots, run mark() until it returns 0, sweep.
CycleAlloc(sz) ==
    /\ last.op \in {"new", "alloc"}
    /\ Alloc(sz)
    /\ UNCHANGED roots

CyclePush(o) ==
    /\ last.op \in {"alloc", "push"}
    /\ o \notin roots
    /\ Push(o)
    /\ roots' = roots \cup {o}

CycleMark ==
    /\ last.op \in {"alloc", "push"} \/ (last.op = "mark" /\ last.ret = 1)
    /\ MarkStep
    /\ UNCHANGED roots

CycleSweep ==
    /\ last.op = "mark" /\ last.ret = 0
    /\ Sweep
    /\ UNCHANGED roots

NextCycle ==
    \/ \E sz \in Sizes : CycleAlloc(sz)
    \/ \E o \in Objects : CyclePush(o)
    \/ CycleMark
    \/ CycleSweep

SpecCycle == InitAny /\ [][NextCycle]_vars

\* ------------------------------------------------------------ the bitmaps
\* one bit per cell: bit c % 32 of used[c / 32], of mark[c / 32]
UsedBit(m, c) == (RdB(m, c \div 8) \div (2 ^ (c % 8))) % 2
MarkBit(m, c) == (RdB(m, SIZEOF_INT * NWORDS + (c \div 8)) \div (2 ^ (c % 8))) % 2

\* the first cell behind the header
FirstCell == SIZEOF_ARENA \div ALLOC_UNIT

\* the cells of the i-th carved object: up to the next object, or nextcell
CellOf(o) == (o - ArenaBase) \div ALLOC_UNIT
CellsOf(i) ==
    CellOf(objs[i]) ..
        ((IF i < Len(objs) THEN CellOf(objs[i + 1]) ELSE nextcell(mem)) - 1)

\* a request of sz bytes fits behind cell nc: nc + ceil(sz / 16) <= NCELLS
\* (a request of 2^17 bytes or more does not fit behind any cell nc >= 0)
Fits(nc, sz) ==
    /\ sz[3] = 0 /\ sz[4] = 0 /\ sz[2] <= 1
    /\ nc + ((sz[1] + 65536 * sz[2] + ALLOC_UNIT - 1) \div ALLOC_UNIT) <= NCELLS

\* C1: on the success path (size at least a header, the cells fit) the call
\* returns the carved object, a non-null reference to
\* arena base + 16 * (nextcell before the call).
C1_AllocReturnsObject ==
    (last.op = "alloc" /\ ~TooSmall(last.arg) /\ Fits(last.nc, last.arg))
        => (last.ret # NULL /\ last.ret = ArenaBase + 16 * last.nc)

\* C4: nextcell never decreases from one call to the next and never exceeds
\* the capacity of the arena in cells.
C4_BumpMonotone ==
    [][nextcell(mem) <= nextcell(mem') /\ nextcell(mem') <= NCELLS]_vars

\* C5: a request whose cells do not fit behind nextcell returns "no room" and
\* leaves the arena, the gray stack and the pool as they were.
C5_CapacityRejection ==
    [][(last'.op = "alloc" /\ ~TooSmall(last'.arg) /\ ~Fits(nextcell(mem), last'.arg))
        => (last'.ret = NULL /\ pc' = "run" /\ mem' = mem /\ segs' = segs
            /\ spare_gs' = spare_gs)]_vars

\* C6: a request smaller than an object header returns "no object" and
\* changes nothing: nextcell, the bitmaps and every other byte of the arena.
C6_MinSizeRejection ==
    [][(last'.op = "alloc" /\ TooSmall(last'.arg))
        => (last'.ret = NULL /\ pc' = "run" /\ mem' = mem /\ segs' = segs
            /\ spare_gs' = spare_gs)]_vars

\* a too-small request was made of an arena that holds objects
C6_Witness == last.op = "alloc" /\ TooSmall(last.arg) /\ objs # <<>>

\* C2: after allocate, push the roots, mark until 0, sweep: the cells of the
\* roots are used and unmarked, the cells of every other object are unused.
C2_EndToEnd ==
    (last.op = "sweep" /\ pc = "run")
        => \A i \in 1..Len(objs) : \A c \in CellsOf(i) :
              IF objs[i] \in roots
              THEN UsedBit(mem, c) = 1 /\ MarkBit(mem, c) = 0
              ELSE UsedBit(mem, c) = 0

\* the cells a sweep step can tell apart: those whose bitmap bytes are not
\* zero before or after it
SweepCells(m1, m2) ==
    {c \in FirstCell..(NCELLS - 1) :
        \E m \in {m1, m2} : RdB(m, c \div 8) # 0
                            \/ RdB(m, SIZEOF_INT * NWORDS + (c \div 8)) # 0}

\* C3: a sweep that runs keeps the used-and-marked cells used and clears
\* their mark, frees the used-and-unmarked cells, and leaves the bits of
\* every other cell as they were.
C3_SweepCorrect ==
    [][(last'.op = "sweep" /\ pc' = "run")
        => \A c \in SweepCells(mem, mem') :
              IF UsedBit(mem, c) = 1 /\ MarkBit(mem, c) = 1
              THEN UsedBit(mem', c) = 1 /\ MarkBit(mem', c) = 0
              ELSE IF UsedBit(mem, c) = 1
              THEN UsedBit(mem', c) = 0
              ELSE UsedBit(mem', c) = UsedBit(mem, c)
                   /\ MarkBit(mem', c) = MarkBit(mem, c)]_vars

\* C7: sweep with entries on the gray stack ends the process before any byte
\* of the arena changes; sweep with an empty gray stack does not die.
C7_SweepPrecondition ==
    [][last'.op = "sweep"
        => IF gray # <<>> THEN pc' = "dead" /\ mem' = mem ELSE pc' = "run"]_vars

\* sweep was called with entries on the gray stack
C7_Witness == last.op = "sweep" /\ pc = "dead" /\ gray # <<>>

\* C8: the segment chain holds exactly the entries pushed and not yet
\* popped, in order, and every pop returns the most recent of them, or
\* "empty" when there is none.
C8_LIFO ==
    /\ Flat(segs, GsHead(mem)) = gray
    /\ last.op = "mark" => last.o = last.arg

\* the pop that took the one entry of a second segment, back to a full first
\* segment whose top is another object
C8_Witness ==
    /\ last.op = "mark" /\ last.o # NULL
    /\ last.o # Top(gray)
    /\ Len(gray) = GS_SIZE
    /\ GsHead(mem) # NULL /\ segs[GsHead(mem)].n = GS_SIZE

\* the segments linked from gs, gs included
RECURSIVE Linked(_, _)
Linked(sg, gs) == IF gs = NULL THEN {} ELSE {gs} \cup Linked(sg, sg[gs].prev)

\* C9: a released segment is in the pool, so that every segment malloc has
\* returned is on the arena's chain or in the pool, and the segments ever
\* obtained are no more than a stack of MaxGray entries has in use at once.
C9_SegmentsRecycled ==
    /\ DOMAIN segs = Linked(segs, GsHead(mem)) \cup Linked(segs, spare_gs)
    /\ Len(segs) <= (MaxGray + GS_SIZE - 1) \div GS_SIZE

\* C10: a second write_barrier call on the same object changes nothing.
C10_BarrierIdempotent ==
    pc = "run" =>
        \A o \in Objects :
            write_barrier(write_barrier(St, o), o) = write_barrier(St, o)

\* write_barrier was called on an object a write barrier had pushed
C10_Witness ==
    /\ last.op = "write_barrier" /\ last.ret = 0
    /\ last.arg \in Range(gray)
    /\ Gray(mem, last.arg) = 1
    /\ IS_MARKED(mem, last.arg - ArenaBase)

\* ------------------------------------------------------------ colours
\* White: mark bit 0 and gray flag 0; Gray: gray flag 1; Black: mark bit 1
\* and gray flag 0.  The mark bit of an object is the bit of its first cell.
Colour(m, o) ==
    IF Gray(m, o) = 1 THEN "Gray"
    ELSE IF MarkBit(m, CellOf(o)) = 1 THEN "Black" ELSE "White"

\* the entries on the arena's gray stack, oldest first
Stack == Flat(segs, GsHead(mem))

\* C11: no call of write_barrier obtains a segment from malloc, whatever the
\* colour of the object, the head segment and the pool.
C11_BarrierNeverAllocates ==
    [][last'.op = "write_barrier" => Len(segs') = Len(segs)]_vars

\* C12: over push, mark and write_barrier steps, a Black object changes
\* colour only to Gray and only by a write_barrier on it, a White object is
\* not Black after one step, and a pushed object is Gray.
C12_ColourProgress ==
    [][last'.op \in {"push", "mark", "write_barrier"}
        => /\ \A o \in Objects :
                /\ (Colour(mem, o) = "Black" /\ Colour(mem', o) # "Black")
                      => /\ Colour(mem', o) = "Gray"
                         /\ last'.op = "write_barrier" /\ last'.arg = o
                /\ Colour(mem, o) = "White" => Colour(mem', o) # "Black"
           /\ last'.op = "push" => Colour(mem', last'.arg) = "Gray"]_vars

\* C13: mark() on a non-empty stack removes exactly the top entry, leaves
\* that object Black (the mark bit of its own cell 1, its gray flag 0) and
\* returns 1; on an empty stack it returns 0 and changes nothing.
C13_MarkBlackens ==
    [][last'.op = "mark"
        => IF Stack # <<>>
           THEN /\ last'.o = Top(Stack)
                /\ Flat(segs', GsHead(mem')) = Front(Stack)
                /\ MarkBit(mem', CellOf(last'.o)) = 1
                /\ Gray(mem', last'.o) = 0
                /\ last'.ret = 1
           ELSE /\ last'.ret = 0
                /\ mem' = mem /\ segs' = segs /\ spare_gs' = spare_gs]_vars

\* C14: write_barrier on the object mark() has just processed sets its gray
\* flag and pushes it once; on a White object it sets the gray flag and
\* leaves the gray stack as it was.
C14_BarrierRegrays ==
    [][last'.op = "write_barrier"
        => LET o == last'.arg IN
           /\ (last.op = "mark" /\ last.o = o)
                 => /\ Gray(mem', o) = 1
                    /\ Flat(segs', GsHead(mem')) = Append(Stack, o)
           /\ (~(last.op = "mark" /\ last.o = o) /\ Colour(mem, o) = "White")
                 => /\ Gray(mem', o) = 1
                    /\ Flat(segs', GsHead(mem')) = Stack]_vars

\* C15, as stated: every object whose gray flag is set is on the gray stack;
\* with the stack empty, no object has its gray flag set.
C15_MarkFixpoint ==
    pc = "run" =>
        /\ \A o \in Objects : Gray(mem, o) = 1 => o \in Range(Stack)
        /\ Stack = <<>> => \A o \in Objects : Gray(mem, o) = 0

\* C15, amended: a write_barrier call that sets the gray flag of an object
\* it reads as marked appends the object to the gray stack, and an entry
\* leaves the stack only through a mark() that clears its gray flag (an
\* object flagged while unmarked is flagged and on no stack).
C15_FlaggedMarkedIsPushed ==
    [][/\ (/\ last'.op = "write_barrier"
           /\ Gray(mem, last'.arg) = 0
           /\ IS_MARKED(mem, last'.arg - get_arena(last'.arg)))
             => /\ Gray(mem', last'.arg) = 1
                /\ Flat(segs', GsHead(mem')) = Append(Stack, last'.arg)
       /\ (Flat(segs', GsHead(mem')) # Stack
             /\ Len(Flat(segs', GsHead(mem'))) <= Len(Stack))
             => /\ last'.op = "mark"
                /\ Flat(segs', GsHead(mem')) = Front(Stack)
                /\ Gray(mem', Top(Stack)) = 0]_vars

\* a write barrier has pushed a marked object, while another object is
\* flagged gray, unmarked and on no stack
C15_Witness ==
    /\ pc = "run"
    /\ last.op = "write_barrier" /\ last.ret = 1
    /\ Gray(mem, last.arg) = 1 /\ IS_MARKED(mem, last.arg - get_arena(last.arg))
    /\ last.arg \in Range(Stack)
    /\ \E p \in Objects : Gray(mem, p) = 1 /\ p \notin Range(Stack)

\* mark() has returned 0 with the stack empty and no segment linked
Drained ==
    /\ last.op = "mark" /\ last.ret = 0
    /\ Stack = <<>>
    /\ GsHead(mem) = NULL

\* C16: every mark() that returns 1 lowers the number of entries on the
\* stack by exactly one, and a run of the driver's mark loop, with no other
\* call in between, ends: mark() returns 0 with the stack empty and no
\* segment linked.
C16_MarkTerminates ==
    /\ [][(last'.op = "mark" /\ last'.ret = 1)
            => Count(segs', GsHead(mem')) = Count(segs, GsHead(mem)) - 1]_vars
    /\ (pc = "drain") ~> (pc = "run" /\ Drained)

\* mark() has returned 0 after it emptied a stack of more than one segment
C16_Witness ==
    /\ Drained /\ pc = "run"
    /\ Len(segs) >= 2
    /\ \A k \in DOMAIN segs : segs[k].n = 0

\* C17: after a successful arena_alloc the used bit of every cell carved for
\* the new object is 1, and a cell behind the header has its used bit set
\* exactly when it lies below nextcell.
C17_UsedTracksCells ==
    (last.op = "alloc" /\ last.o # NULL /\ pc = "run" /\ Fits(last.nc, last.arg))
        => /\ \A c \in last.nc..(nextcell(mem) - 1) : UsedBit(mem, c) = 1
           /\ \A c \in FirstCell..(NCELLS - 1) :
                 UsedBit(mem, c) = 1 <=> c < nextcell(mem)

\* C18: a sweep that completes leaves nextcell and the gs pointer, the
\* fields laid over used[0] and used[2..3], as they were.
C18_SweepKeepsHeader ==
    [][(last'.op = "sweep" /\ pc' = "run")
        => /\ nextcell(mem') = nextcell(mem)
           /\ Rd(mem', 2) = Rd(mem, 2)
           /\ Rd(mem', 3) = Rd(mem, 3)]_vars

\* the bytes of mem that differ from those of m
Changed(m) ==
    {b \in DOMAIN mem \cup DOMAIN m : RdB(mem, b) # RdB(m, b)}

\* C20: the int of mark[] that mark() and write_barrier use for an object
\* has an index below the number of ints in mark[], and a mark() changes no
\* byte of the storage behind the header other than the object's own header.
C20_MarkInBounds ==
    [][/\ (last'.op = "mark" /\ last'.o # NULL)
            => /\ (last'.o - ArenaBase) \div 32 < NWORDS
               /\ \A b \in Changed(mem') :
                     b >= SIZEOF_ARENA => b = ObjByte(last'.o)
       /\ last'.op = "write_barrier"
            => (last'.arg - get_arena(last'.arg)) \div 32 < NWORDS]_vars

\* C19: the head segment, if there is one, holds between 1 and GS_SIZE
\* entries and every segment behind it is full; there is a head segment
\* exactly when entries are pending; the slots in use are slots of the
\* segment's array, the one gs_pop reads among them; and no segment is both
\* on the arena's chain and in the pool.
C19_ChainShape ==
    LET h == GsHead(mem) IN
    /\ h \in DOMAIN segs \cup {NULL}
    /\ h # NULL <=> gray # <<>>
    /\ h # NULL =>
          /\ segs[h].n >= 1 /\ segs[h].n <= GS_SIZE
          /\ \A g \in Linked(segs, segs[h].prev) : segs[g].n = GS_SIZE
          /\ \A g \in Linked(segs, h) :
                DOMAIN segs[g].data = (GS_SIZE - segs[g].n)..(GS_SIZE - 1)
    /\ Linked(segs, h) \cap Linked(segs, spare_gs) = {}

\* a write barrier has pushed the first entry of a second segment, behind
\* which the first segment is full
C19_Witness ==
    /\ last.op = "write_barrier" /\ last.ret = 1
    /\ GsHead(mem) # NULL
    /\ segs[GsHead(mem)].n = 1
    /\ segs[GsHead(mem)].prev # NULL
    /\ segs[segs[GsHead(mem)].prev].n = GS_SIZE

====
